---- MODULE Spec2Model ----
(***************************************************************************)
(* Public Spaces Lebanon dashboard (src/app.py).                           *)
(*                                                                         *)
(* The program is a Streamlit script: every page load and every widget     *)
(* interaction re-executes the whole file top to bottom.  State that       *)
(* survives a pass is the st.cache_data store behind load_data() and the   *)
(* values of the four input widgets; everything else is recomputed.        *)
(*                                                                         *)
(* Strings are sequences of one-character strings, so that split/replace   *)
(* and the sort order of group keys are computed, not assumed.  A missing  *)
(* cell of the CSV (pandas NaN) is the value NaN below.                    *)
(***************************************************************************)
EXTENDS Integers, Sequences, FiniteSets, TLC

VARIABLES
    cache,              \* st.cache_data entry of load_data: [loaded, df]
    fetches,            \* number of requests.get calls made by the process
    selected_areas,     \* sidebar multiselect "Select Areas" (line 56)
    num_top_entities,   \* sidebar slider (line 115)
    selected_entity,    \* selectbox of the detail view (line 194)
    comparison_areas,   \* multiselect "Select Areas for Comparison" (line 226)
    status,             \* how the last pass ended: "none", "ok" or an exception name
    gets,               \* requests.get calls made during the last pass
    answered,           \* what the network answered in the last pass, if asked
    df,                 \* module-level df of the last pass (line 52)
    lighting_data,      \* line 81
    parks_data,         \* line 90
    grouped_df,         \* line 147
    top_entities,       \* line 156
    detail,             \* what the detail view wrote (lines 196-217)
    charts,             \* the charts the last pass plotted
    warning,            \* whether the last pass called st.warning (line 287)
    data,               \* argument of aggregate_data when studied alone
    group_column,       \* argument of aggregate_data when studied alone
    agg_data,           \* its result
    num,                \* argument n of nlargest when studied alone
    score_column,       \* argument column of nlargest when studied alone
    top,                \* its result
    url,                \* argument of clean_ref_area when studied alone
    area,               \* its result
    stage               \* position of the function studies

vars == <<cache, fetches, selected_areas, num_top_entities, selected_entity,
          comparison_areas, status, gets, answered, df, lighting_data, parks_data,
          grouped_df, top_entities, detail, charts, warning,
          data, group_column, agg_data, num, score_column, top, url, area, stage>>

mainVars == <<cache, fetches, selected_areas, num_top_entities, selected_entity,
              comparison_areas, status, gets, answered, df, lighting_data,
              parks_data, grouped_df, top_entities, detail, charts, warning>>

aggVars == <<data, group_column, agg_data, num, score_column, top>>

areaVars == <<url, area>>

(***************************************************************************)
(* Bounds of the model.                                                    *)
(***************************************************************************)
MaxLen == 4         \* longest refArea string enumerated for clean_ref_area
MaxRows == 2        \* most rows of a dataset
MaxFetches == 2     \* most failed fetches followed before a successful one

(***************************************************************************)
(* Python strings.                                                         *)
(***************************************************************************)
Alphabet == {"/", "_", " ", "a"}

\* Code points, for the lexicographic order pandas sorts group keys by.
Ord(c) ==
    CASE c = " " -> 32
      [] c = "/" -> 47
      [] c = "1" -> 49
      [] c = "2" -> 50
      [] c = "A" -> 65
      [] c = "X" -> 88
      [] c = "Y" -> 89
      [] c = "Z" -> 90
      [] c = "_" -> 95
      [] c = "a" -> 97
      [] c = "h" -> 104

RECURSIVE StrLess(_, _)
StrLess(s, t) ==
    IF t = <<>> THEN FALSE
    ELSE IF s = <<>> THEN TRUE
    ELSE IF Head(s) = Head(t) THEN StrLess(Tail(s), Tail(t))
    ELSE Ord(Head(s)) < Ord(Head(t))

\* str.split(sep): the list of maximal sep-free pieces, always at least one.
RECURSIVE Split(_, _)
Split(s, sep) ==
    IF s = <<>> THEN << <<>> >>
    ELSE LET rest == Split(Tail(s), sep)
         IN  IF Head(s) = sep
             THEN << <<>> >> \o rest
             ELSE << <<Head(s)>> \o Head(rest) >> \o Tail(rest)

\* str.replace(old, new) for one-character old and new.
Replace(s, old, new) ==
    [i \in 1..Len(s) |-> IF s[i] = old THEN new ELSE s[i]]

\* A variant of clean_ref_area that forgets the replace.
CleanRefAreaNoReplace(u) ==
    LET parts == Split(u, "/") IN parts[Len(parts)]

\* clean_ref_area: url.split('/')[-1].replace('_', ' ')
clean_ref_area(u) ==
    LET parts == Split(u, "/") IN Replace(parts[Len(parts)], "_", " ")

RECURSIVE StringsUpTo(_)
StringsUpTo(k) ==
    IF k = 0 THEN { <<>> }
    ELSE LET shorter == StringsUpTo(k - 1)
         IN  shorter \cup { Append(s, c) : s \in shorter, c \in Alphabet }

(***************************************************************************)
(* Tables.  A table is a sequence of rows; a cleaned row is a record with  *)
(* the columns load_data returns.                                          *)
(***************************************************************************)
NaN == <<"NaN">>                      \* a missing cell

SumColumns == {"lighting_good", "parks_good", "lighting_acceptable",
               "parks_acceptable", "parks_exist", "parks_bad", "lighting_bad"}

\* Indicator values of one town: survey rows carry 0/1 flags.
IndicatorRows ==
    { [lighting_good |-> 1, lighting_acceptable |-> 0, lighting_bad |-> 0,
       parks_good |-> 1, parks_acceptable |-> 0, parks_bad |-> 0, parks_exist |-> 1],
      [lighting_good |-> 0, lighting_acceptable |-> 1, lighting_bad |-> 0,
       parks_good |-> 0, parks_acceptable |-> 1, parks_bad |-> 0, parks_exist |-> 1],
      [lighting_good |-> 0, lighting_acceptable |-> 0, lighting_bad |-> 1,
       parks_good |-> 0, parks_acceptable |-> 0, parks_bad |-> 0, parks_exist |-> 0] }

Towns == { <<"A", "1">>, <<"A", "2">>, NaN }

\* refArea values: URI-like strings whose last path segment names the area.
RefAreas == { <<"h", "/", "X">>, <<"h", "/", "Y", "_", "Z">> }

Areas == { clean_ref_area(r) : r \in RefAreas }

CleanRow(town, a, ind) ==
    [Town |-> town, Area |-> a,
     parks_exist |-> ind.parks_exist, parks_bad |-> ind.parks_bad,
     lighting_bad |-> ind.lighting_bad,
     lighting_acceptable |-> ind.lighting_acceptable,
     lighting_good |-> ind.lighting_good, parks_good |-> ind.parks_good,
     parks_acceptable |-> ind.parks_acceptable]

RECURSIVE TablesUpTo(_, _)
TablesUpTo(rows, k) ==
    IF k = 0 THEN { <<>> }
    ELSE LET shorter == TablesUpTo(rows, k - 1)
         IN  shorter \cup { Append(t, r) : t \in shorter, r \in rows }

(***************************************************************************)
(* pandas operations used by the script.                                   *)
(***************************************************************************)
\* df[df[col].isin(values)]
IsIn(table, col, values) == SelectSeq(table, LAMBDA r : r[col] \in values)

\* Series.unique(): distinct values in order of first appearance, NaN kept.
RECURSIVE Unique(_, _)
Unique(table, col) ==
    IF table = <<>> THEN <<>>
    ELSE LET front == SubSeq(table, 1, Len(table) - 1)
             last == table[Len(table)][col]
             u == Unique(front, col)
         IN  IF \E i \in 1..Len(u) : u[i] = last THEN u ELSE Append(u, last)

Range(seq) == { seq[i] : i \in 1..Len(seq) }

\* Column sum.
RECURSIVE ColSum(_, _)
ColSum(table, col) ==
    IF table = <<>> THEN 0 ELSE table[1][col] + ColSum(Tail(table), col)

\* Series.nunique(): distinct values, NaN not counted (dropna=True).
NUnique(table, col) == Cardinality(Range(Unique(table, col)) \ {NaN})

\* groupby(col): the group keys, sorted ascending, rows with a NaN key dropped
\* (sort=True, dropna=True are the defaults).
RECURSIVE SortKeys(_)
SortKeys(S) ==
    IF S = {} THEN <<>>
    ELSE LET m == CHOOSE x \in S : \A y \in S \ {x} : StrLess(x, y)
         IN  <<m>> \o SortKeys(S \ {m})

GroupKeys(table, col) == SortKeys(Range(Unique(table, col)) \ {NaN})

\* A variant of the grouping that loses the first row of every group.
GroupRowsDropFirst(table, col, key) ==
    Tail(SelectSeq(table, LAMBDA r : r[col] = key))

\* The rows of one group.
GroupRows(table, col, key) == SelectSeq(table, LAMBDA r : r[col] = key)

\* groupby('Area')[cols].sum().reset_index()
GroupSum(table, cols) ==
    LET keys == GroupKeys(table, "Area")
    IN  [i \in 1..Len(keys) |->
            [c \in cols \cup {"Area"} |->
                IF c = "Area" THEN keys[i]
                ELSE ColSum(GroupRows(table, "Area", keys[i]), c)]]

(***************************************************************************)
(* float64 division as pandas performs it: x/0 is inf, 0/0 is NaN, and no  *)
(* exception is raised.  Finite quotients are kept as reduced fractions.   *)
(***************************************************************************)
RECURSIVE GCD(_, _)
GCD(a, b) == IF b = 0 THEN a ELSE GCD(b, a % b)

Div(a, b) ==
    IF b = 0
    THEN [kind |-> IF a = 0 THEN "nan" ELSE "inf", n |-> 0, d |-> 0]
    ELSE LET g == GCD(a, b) IN [kind |-> "num", n |-> a \div g, d |-> b \div g]

\* x > y on float64 (scores are never negative; comparisons with NaN are false).
Greater(x, y) ==
    CASE x.kind = "nan" \/ y.kind = "nan" -> FALSE
      [] x.kind = "inf" -> y.kind = "num"
      [] y.kind = "inf" -> FALSE
      [] OTHER -> x.n * y.d > y.n * x.d

(***************************************************************************)
(* aggregate_data (lines 118-143).                                         *)
(*                                                                         *)
(* The dict passed to agg names 'Town' and the seven indicator columns.    *)
(* Grouping by one of those columns leaves that name both in the index and *)
(* among the result's columns, and reset_index() then raises ValueError    *)
(* ("cannot insert Town, already exists").  Only a group column outside    *)
(* the dict - 'Area' - yields a table.                                     *)
(***************************************************************************)
AggColumns == SumColumns \cup {"Town"}

\* A variant of the scoring that also counts parks_exist.
AggRowCountingExist(rows, key) ==
    LET town_count_ == NUnique(rows, "Town")
        total_score_ == ColSum(rows, "lighting_good") + ColSum(rows, "parks_good")
                        + ColSum(rows, "lighting_acceptable")
                        + ColSum(rows, "parks_acceptable") + ColSum(rows, "parks_exist")
    IN  [Area |-> key,
         lighting_good |-> ColSum(rows, "lighting_good"),
         parks_good |-> ColSum(rows, "parks_good"),
         lighting_acceptable |-> ColSum(rows, "lighting_acceptable"),
         parks_acceptable |-> ColSum(rows, "parks_acceptable"),
         parks_exist |-> ColSum(rows, "parks_exist"),
         parks_bad |-> ColSum(rows, "parks_bad"),
         lighting_bad |-> ColSum(rows, "lighting_bad"),
         town_count |-> town_count_,
         total_score |-> total_score_,
         normalized_score |-> Div(total_score_, town_count_)]

\* One row of the result: the sums, the distinct-town count and the scores.
AggRow(rows, key) ==
    LET lighting_good_ == ColSum(rows, "lighting_good")
        parks_good_ == ColSum(rows, "parks_good")
        lighting_acceptable_ == ColSum(rows, "lighting_acceptable")
        parks_acceptable_ == ColSum(rows, "parks_acceptable")
        town_count_ == NUnique(rows, "Town")
        total_score_ == lighting_good_ + parks_good_
                        + lighting_acceptable_ + parks_acceptable_
    IN  [Area |-> key,
         lighting_good |-> lighting_good_,
         parks_good |-> parks_good_,
         lighting_acceptable |-> lighting_acceptable_,
         parks_acceptable |-> parks_acceptable_,
         parks_exist |-> ColSum(rows, "parks_exist"),
         parks_bad |-> ColSum(rows, "parks_bad"),
         lighting_bad |-> ColSum(rows, "lighting_bad"),
         town_count |-> town_count_,
         total_score |-> total_score_,
         normalized_score |-> Div(total_score_, town_count_)]

aggregate_data(table, col) ==
    IF col \in AggColumns
    THEN [raised |-> "ValueError", table |-> <<>>]
    ELSE LET keys == GroupKeys(table, col)
         IN  [raised |-> "no",
              table |-> [i \in 1..Len(keys) |->
                            AggRow(GroupRows(table, col, keys[i]), keys[i])]]

(***************************************************************************)
(* DataFrame.nlargest(n, column), keep='first' (line 156).                 *)
(*                                                                         *)
(* pandas: n <= 0 gives no rows.  With n >= len(frame) the result is       *)
(* sort_values(ascending=False).head(n), whose default sort kind is        *)
(* numpy's quicksort: NaN scores go last in their original order, and the  *)
(* order among equal scores is whatever the numpy build produces.  With    *)
(* n < len(frame) the non-NaN scores are sorted by a stable mergesort, the *)
(* first n are kept, and rows with a NaN score fill up what is missing.    *)
(* Results are given as sequences of row positions of the frame.           *)
(***************************************************************************)
\* The score of row i as a float64 (total_score is an integer column).
Score(frame, col, i) ==
    IF col = "normalized_score" THEN frame[i][col] ELSE Div(frame[i][col], 1)

NonNan(frame, col) == { i \in 1..Len(frame) : Score(frame, col, i).kind # "nan" }

\* Positions with a NaN score, in original order.
RECURSIVE Ascending(_)
Ascending(S) ==
    IF S = {} THEN <<>>
    ELSE LET m == CHOOSE x \in S : \A y \in S : x <= y
         IN  <<m>> \o Ascending(S \ {m})

NanIndex(frame, col) == Ascending((1..Len(frame)) \ NonNan(frame, col))

\* A variant of the stable sort that puts the later of two equal scores first.
RECURSIVE StableDescendingTiesLast(_, _, _)
StableDescendingTiesLast(frame, col, S) ==
    IF S = {} THEN <<>>
    ELSE LET best == { i \in S : \A j \in S :
                          ~Greater(Score(frame, col, j), Score(frame, col, i)) }
             m == CHOOSE x \in best : \A y \in best : x >= y
         IN  <<m>> \o StableDescendingTiesLast(frame, col, S \ {m})

\* Stable descending order of the positions in S.
RECURSIVE StableDescending(_, _, _)
StableDescending(frame, col, S) ==
    IF S = {} THEN <<>>
    ELSE LET best == { i \in S : \A j \in S :
                          ~Greater(Score(frame, col, j), Score(frame, col, i)) }
             m == CHOOSE x \in best : \A y \in best : x <= y
         IN  <<m>> \o StableDescending(frame, col, S \ {m})

\* Every descending order of the positions in S (ties in any order).
AnyDescending(frame, col, S) ==
    { p \in [1..Cardinality(S) -> S] :
        /\ \A a, b \in 1..Cardinality(S) : a # b => p[a] # p[b]
        /\ \A a, b \in 1..Cardinality(S) :
              a < b => ~Greater(Score(frame, col, p[b]), Score(frame, col, p[a])) }

Head_(seq, n) == SubSeq(seq, 1, IF n < Len(seq) THEN n ELSE Len(seq))

FastPath(frame, col, n) ==
    LET sorted == StableDescending(frame, col, NonNan(frame, col))
    IN  Head_(Head_(sorted, n) \o NanIndex(frame, col), n)

SlowPath(frame, col, n) ==
    { Head_(p \o NanIndex(frame, col), n) :
        p \in AnyDescending(frame, col, NonNan(frame, col)) }

\* The position sequences nlargest may return.
nlargest(frame, n, col) ==
    IF n <= 0 THEN { <<>> }
    ELSE IF n >= Len(frame) THEN SlowPath(frame, col, n)
    ELSE { FastPath(frame, col, n) }

Take(frame, idx) == [k \in 1..Len(idx) |-> frame[idx[k]]]

(***************************************************************************)
(* load_data (lines 18-50) behind st.cache_data.                           *)
(*                                                                         *)
(* What the network returns is an input of the pass.  requests.get raises  *)
(* on a connection failure; it does not raise on an HTTP error status, the *)
(* error body is parsed instead and, lacking the dataset's columns, makes  *)
(* drop(columns=...) raise KeyError at line 28.  st.cache_data stores the  *)
(* return value of a call that returns and nothing of a call that raises.  *)
(***************************************************************************)
RawColumns ==
    {"Town", "refArea", "Observation URI", "dataset", "publisher", "references",
     "Existence of public parks - exists",
     "State of public parks - bad",
     "State of the lighting network - bad",
     "State of the lighting network - acceptable",
     "State of the lighting network - good",
     "State of public parks - good",
     "State of public parks - acceptable"}

RawRow(town, ref, ind) ==
    [c \in RawColumns |->
        CASE c = "Town" -> town
          [] c = "refArea" -> ref
          [] c = "Existence of public parks - exists" -> ind.parks_exist
          [] c = "State of public parks - bad" -> ind.parks_bad
          [] c = "State of the lighting network - bad" -> ind.lighting_bad
          [] c = "State of the lighting network - acceptable" -> ind.lighting_acceptable
          [] c = "State of the lighting network - good" -> ind.lighting_good
          [] c = "State of public parks - good" -> ind.parks_good
          [] c = "State of public parks - acceptable" -> ind.parks_acceptable
          [] OTHER -> <<>>]

\* Lines 29 and 40-48: the raw column behind each column of the result.
RawName(c) ==
    CASE c = "parks_exist" -> "Existence of public parks - exists"
      [] c = "parks_bad" -> "State of public parks - bad"
      [] c = "lighting_bad" -> "State of the lighting network - bad"
      [] c = "lighting_acceptable" -> "State of the lighting network - acceptable"
      [] c = "lighting_good" -> "State of the lighting network - good"
      [] c = "parks_good" -> "State of public parks - good"
      [] c = "parks_acceptable" -> "State of public parks - acceptable"
      [] OTHER -> c

\* Lines 25-48 on one row: drop, rename, derive Area, drop refArea/references.
CleanedRow(r) ==
    [c \in SumColumns \cup {"Area", "Town"} |->
        IF c = "Area" THEN clean_ref_area(r["refArea"]) ELSE r[RawName(c)]]

Cleaned(rows) == [i \in 1..Len(rows) |-> CleanedRow(rows[i])]

\* The towns and indicator rows of the datasets the dashboard is run on: a
\* named town or a missing one, and one kind of survey row (aggregate_data is
\* run on every kind of row under SpecAgg).
DashboardTowns == { <<"A", "1">>, NaN }

DashboardIndicators == { ind \in IndicatorRows : ind.lighting_good = 1 }

Datasets ==
    TablesUpTo({ RawRow(t, r, ind) :
                    t \in DashboardTowns, r \in RefAreas, ind \in DashboardIndicators },
               MaxRows) \ { <<>> }

Responses ==
    { [kind |-> "ConnectionError", rows |-> <<>>],
      [kind |-> "HTTPError", rows |-> <<>>] }
    \cup { [kind |-> "CSV", rows |-> d] : d \in Datasets }

NoCache == [loaded |-> FALSE, df |-> <<>>]

\* A variant of load_data that swallows a failed fetch and returns an empty table.
LoadDataSwallow(c, resp) ==
    IF c.loaded
    THEN [raised |-> "no", df |-> c.df, gets |-> 0, cache |-> c]
    ELSE IF resp.kind = "CSV"
    THEN [raised |-> "no", df |-> Cleaned(resp.rows), gets |-> 1,
          cache |-> [loaded |-> TRUE, df |-> Cleaned(resp.rows)]]
    ELSE [raised |-> "no", df |-> <<>>, gets |-> 1, cache |-> NoCache]

\* A variant of load_data without the cache decorator.
LoadDataUncached(c, resp) ==
    IF resp.kind = "ConnectionError"
    THEN [raised |-> "ConnectionError", df |-> <<>>, gets |-> 1, cache |-> c]
    ELSE IF resp.kind = "HTTPError"
    THEN [raised |-> "KeyError", df |-> <<>>, gets |-> 1, cache |-> c]
    ELSE [raised |-> "no", df |-> Cleaned(resp.rows), gets |-> 1,
          cache |-> [loaded |-> TRUE, df |-> Cleaned(resp.rows)]]

\* One call of load_data(): the outcome, the table, the requests.get calls made
\* and the cache afterwards.
LoadData(c, resp) ==
    IF c.loaded
    THEN [raised |-> "no", df |-> c.df, gets |-> 0, cache |-> c]
    ELSE IF resp.kind = "ConnectionError"
    THEN [raised |-> "ConnectionError", df |-> <<>>, gets |-> 1, cache |-> c]
    ELSE IF resp.kind = "HTTPError"
    THEN [raised |-> "KeyError", df |-> <<>>, gets |-> 1, cache |-> c]
    ELSE [raised |-> "no", df |-> Cleaned(resp.rows), gets |-> 1,
          cache |-> [loaded |-> TRUE, df |-> Cleaned(resp.rows)]]

(***************************************************************************)
(* One pass of the script (lines 52-290).                                  *)
(***************************************************************************)
SliderMin == 5
SliderMax == 20
SliderDefault == 10
ComparisonDefault == 4

None == <<"None">>                    \* Python's None, where a string may stand

Default == [dflt |-> TRUE, v |-> <<>>]
Chosen(x) == [dflt |-> FALSE, v |-> x]

\* What the network answers when asked.  Once the table is cached the model
\* takes the network to be down: load_data must then not depend on it.
Network(c) ==
    IF c.loaded
    THEN { resp \in Responses : resp.kind = "ConnectionError" }
    ELSE Responses

\* The slider positions tried: both ends and the default.
SliderValues == {SliderMin, SliderDefault, SliderMax}

\* df['Area'].unique(), the options of both multiselects (lines 56, 226).
AreaOptions(d) == Unique(d, "Area")

\* Line 81.
LightingData(filtered_df) ==
    GroupSum(filtered_df, {"lighting_bad", "lighting_acceptable", "lighting_good"})

\* Line 90.
ParksData(filtered_df) ==
    GroupSum(filtered_df, {"parks_bad", "parks_acceptable", "parks_good"})

\* Line 194: a selectbox returns the chosen option while it is among the
\* options, else the first option, and None when there are no options.
SelectboxValue(ent, options) ==
    IF options = <<>> THEN None
    ELSE IF ~ent.dflt /\ ent.v \in Range(options) THEN ent.v
    ELSE options[1]

\* Python truthiness of the selectbox value (line 196).
Truthy(x) == x # None /\ x # <<>>

NoDetail == [shown |-> FALSE, row |-> <<>>, towns |-> <<>>]

\* Lines 196-217.  entity_data is the first row of top_entities whose Area is
\* the entity (IndexError when there is none); ", ".join(related_towns)
\* raises TypeError when a town name is missing (NaN is a float).
DetailView(d, top_rows, entity) ==
    IF ~Truthy(entity) THEN [raised |-> "no", detail |-> NoDetail]
    ELSE LET match == SelectSeq(top_rows, LAMBDA r : r.Area = entity)
             related_towns == Unique(IsIn(d, "Area", {entity}), "Town")
         IN  IF match = <<>>
             THEN [raised |-> "IndexError", detail |-> NoDetail]
             ELSE [raised |-> IF NaN \in Range(related_towns) THEN "TypeError" ELSE "no",
                   detail |-> [shown |-> TRUE, row |-> <<match[1]>>,
                               towns |-> related_towns]]

\* Statuses of a pass in which the sidebar, slider and selectbox were drawn.
Drawn == {"ok", "TypeError", "IndexError"}

\* The pass aborted inside load_data (line 52): nothing below it ran.
LoadAborted(L) ==
    /\ status' = L.raised
    /\ df' = <<>>
    /\ selected_areas' = {}
    /\ num_top_entities' = SliderDefault
    /\ selected_entity' = None
    /\ comparison_areas' = {}
    /\ lighting_data' = <<>>
    /\ parks_data' = <<>>
    /\ grouped_df' = <<>>
    /\ top_entities' = <<>>
    /\ detail' = NoDetail
    /\ charts' = {}
    /\ warning' = FALSE

\* Lines 54-290 with the table d.
Body(d, sa, n, ent, ca) ==
    \E options \in {AreaOptions(d)}, agg \in {aggregate_data(d, "Area")} :
      \E sidebar \in {IF sa.dflt THEN Range(options) ELSE sa.v},
         slider \in {IF n.dflt THEN SliderDefault ELSE n.v},
         comparison \in {IF ca.dflt THEN Range(Head_(options, ComparisonDefault))
                         ELSE ca.v} :
        \E filtered_df \in {IsIn(d, "Area", sidebar)},
           idx \in nlargest(agg.table, slider, "normalized_score") :
          \E top_rows \in {Take(agg.table, idx)} :
            \E entity \in {SelectboxValue(ent, [k \in 1..Len(top_rows) |->
                                                   top_rows[k].Area])} :
              \E view \in {DetailView(d, top_rows, entity)} :
                /\ df' = d
                /\ selected_areas' = sidebar
                /\ lighting_data' = LightingData(filtered_df)
                /\ parks_data' = ParksData(filtered_df)
                /\ num_top_entities' = slider
                /\ grouped_df' = agg.table
                /\ top_entities' = top_rows
                /\ selected_entity' = entity
                /\ detail' = view.detail
                /\ IF view.raised # "no"
                   THEN /\ status' = view.raised
                        /\ comparison_areas' = {}
                        /\ charts' = {"lighting", "parks", "top"}
                        /\ warning' = FALSE
                   ELSE /\ status' = "ok"
                        /\ comparison_areas' = comparison
                        /\ charts' = IF comparison # {}
                                     THEN {"lighting", "parks", "top", "pie"}
                                     ELSE {"lighting", "parks", "top"}
                        /\ warning' = (comparison = {})

RunScript(sa, n, ent, ca, resp) ==
    \E L \in {LoadData(cache, resp)} :
        /\ cache' = L.cache
        /\ fetches' = fetches + L.gets
        /\ gets' = L.gets
        /\ answered' = IF L.gets > 0 THEN resp.kind ELSE "not asked"
        /\ IF L.raised # "no" THEN LoadAborted(L) ELSE Body(L.df, sa, n, ent, ca)
        /\ UNCHANGED <<aggVars, areaVars, stage>>

\* The widget values a rerun starts from: a widget keeps its value only while
\* it is drawn; the comparison multiselect is drawn only by a pass that got
\* as far as line 226.
KeptComparison == IF status = "ok" THEN Chosen(comparison_areas) ELSE Default

\* A browser opens (or reloads) the page: a new session, every widget at its default.
OpenPage ==
    /\ cache.loaded \/ fetches < MaxFetches
    /\ \E resp \in Network(cache) :
         RunScript(Default, Default, Default, Default, resp)

\* The user changes the sidebar multiselect.
SelectAreas ==
    /\ status \in Drawn
    /\ \E S \in SUBSET Range(AreaOptions(df)) :
         /\ S # selected_areas
         /\ \E resp \in Network(cache) :
              RunScript(Chosen(S), Chosen(num_top_entities), Chosen(selected_entity),
                        KeptComparison, resp)

\* The user moves the slider.
SlideNumTop ==
    /\ status \in Drawn
    /\ \E n \in SliderValues :
         /\ n # num_top_entities
         /\ \E resp \in Network(cache) :
              RunScript(Chosen(selected_areas), Chosen(n), Chosen(selected_entity),
                        KeptComparison, resp)

\* The user picks another entity in the selectbox.
SelectEntity ==
    /\ status \in Drawn
    /\ \E k \in 1..Len(top_entities) :
         /\ top_entities[k].Area # selected_entity
         /\ \E resp \in Network(cache) :
              RunScript(Chosen(selected_areas), Chosen(num_top_entities),
                        Chosen(top_entities[k].Area), KeptComparison, resp)

\* The user changes the comparison multiselect.
SelectComparison ==
    /\ status = "ok"
    /\ \E S \in SUBSET Range(AreaOptions(df)) :
         /\ S # comparison_areas
         /\ \E resp \in Network(cache) :
              RunScript(Chosen(selected_areas), Chosen(num_top_entities),
                        Chosen(selected_entity), Chosen(S), resp)

MainIdle ==
    /\ cache = NoCache
    /\ fetches = 0
    /\ selected_areas = {}
    /\ num_top_entities = SliderDefault
    /\ selected_entity = None
    /\ comparison_areas = {}
    /\ status = "none"
    /\ gets = 0
    /\ answered = "not asked"
    /\ df = <<>>
    /\ lighting_data = <<>>
    /\ parks_data = <<>>
    /\ grouped_df = <<>>
    /\ top_entities = <<>>
    /\ detail = NoDetail
    /\ charts = {}
    /\ warning = FALSE

AggIdle ==
    /\ data = <<>>
    /\ group_column = "Area"
    /\ agg_data = <<>>
    /\ num = 0
    /\ score_column = "normalized_score"
    /\ top = <<>>

AreaIdle ==
    /\ url = <<>>
    /\ area = <<>>

Init == MainIdle /\ AggIdle /\ AreaIdle /\ stage = "dashboard"

Next ==
    \/ OpenPage
    \/ SelectAreas
    \/ SlideNumTop
    \/ SelectEntity
    \/ SelectComparison

Spec == Init /\ [][Next]_vars

(***************************************************************************)
(* aggregate_data and nlargest on their own: every table of up to MaxRows  *)
(* rows, both group columns the script mentions (lines 147, 151), both     *)
(* score columns (lines 148, 152) and every n up to one past the number of *)
(* rows.  top holds the positions in agg_data of the rows returned.        *)
(***************************************************************************)
StudyRows == { CleanRow(t, a, ind) : t \in Towns, a \in Areas, ind \in IndicatorRows }

InitAgg ==
    /\ MainIdle
    /\ AreaIdle
    /\ stage = "input"
    /\ data \in TablesUpTo(StudyRows, MaxRows)
    /\ group_column \in {"Area", "Town"}
    /\ agg_data = <<>>
    /\ num = 0
    /\ score_column = "normalized_score"
    /\ top = <<>>

Aggregate ==
    /\ stage = "input"
    /\ \E r \in {aggregate_data(data, group_column)} :
         /\ agg_data' = r.table
         /\ stage' = IF r.raised = "no" THEN "aggregated" ELSE r.raised
    /\ UNCHANGED <<mainVars, areaVars, data, group_column, num, score_column, top>>

Rank ==
    /\ stage = "aggregated"
    /\ \E n \in 0..(MaxRows + 1), c \in {"normalized_score", "total_score"} :
         /\ num' = n
         /\ score_column' = c
         /\ top' \in nlargest(agg_data, n, c)
    /\ stage' = "ranked"
    /\ UNCHANGED <<mainVars, areaVars, data, group_column, agg_data>>

NextAgg == Aggregate \/ Rank

SpecAgg == InitAgg /\ [][NextAgg]_vars

(***************************************************************************)
(* clean_ref_area on its own: every string of up to MaxLen characters,     *)
(* derived once and then derived again from the result.                    *)
(***************************************************************************)
InitArea ==
    /\ MainIdle
    /\ AggIdle
    /\ stage = "url"
    /\ url \in StringsUpTo(MaxLen)
    /\ area = <<>>

Derive ==
    /\ stage = "url"
    /\ area' = clean_ref_area(url)
    /\ stage' = "derived"
    /\ UNCHANGED <<mainVars, aggVars, url>>

DeriveAgain ==
    /\ stage = "derived"
    /\ url' = area
    /\ area' = clean_ref_area(area)
    /\ stage' = "rederived"
    /\ UNCHANGED <<mainVars, aggVars>>

NextArea == Derive \/ DeriveAgain

SpecArea == InitArea /\ [][NextArea]_vars

(***************************************************************************)
(* Properties of clean_ref_area (checked under SpecArea).                  *)
(***************************************************************************)
\* Position of the final '/' of u, 0 when u has none.
LastSlash(u) ==
    IF \E i \in 1..Len(u) : u[i] = "/"
    THEN CHOOSE i \in 1..Len(u) : u[i] = "/" /\ \A j \in (i + 1)..Len(u) : u[j] # "/"
    ELSE 0

\* C10: Area is the substring of refArea after its final '/', with every '_'
\* replaced by a space; it holds neither '/' nor '_', and deriving again from
\* the result changes nothing.
C10_AreaDerivation ==
    stage \in {"derived", "rederived"} =>
        /\ Len(area) = Len(url) - LastSlash(url)
        /\ \A i \in 1..Len(area) :
              area[i] = IF url[LastSlash(url) + i] = "_" THEN " "
                        ELSE url[LastSlash(url) + i]
        /\ \A i \in 1..Len(area) : area[i] \notin {"/", "_"}
        /\ stage = "rederived" => area = url

\* The first derivation of a string with a '/' followed later by an '_'.
C10_Witness ==
    /\ stage = "derived"
    /\ \E i, j \in 1..Len(url) : i < j /\ url[i] = "/" /\ url[j] = "_"
    /\ LastSlash(url) > 1
    /\ \E i \in 1..Len(area) : area[i] = " "

(***************************************************************************)
(* Properties of aggregate_data and nlargest (checked under SpecAgg).      *)
(***************************************************************************)
Aggregated == stage \in {"aggregated", "ranked"}

\* C4: every row of aggregate_data(table, 'Area') has town_count >= 1, so the
\* division is never by zero, and normalized_score = total_score / town_count.
C4_TownCountPositive ==
    Aggregated =>
        \A i \in 1..Len(agg_data) :
            /\ agg_data[i].town_count >= 1
            /\ agg_data[i].normalized_score.kind = "num"
            /\ agg_data[i].normalized_score.n * agg_data[i].town_count
                  = agg_data[i].total_score * agg_data[i].normalized_score.d

\* Sum of a column over the rows at the positions of S.
RECURSIVE SumOver(_, _, _)
SumOver(table, col, S) ==
    IF S = {} THEN 0
    ELSE LET i == CHOOSE x \in S : TRUE
         IN  table[i][col] + SumOver(table, col, S \ {i})

Total(table, col) == SumOver(table, col, 1..Len(table))

\* C5: grouping neither drops nor double-counts a row: each summed column has
\* the same total over the aggregated table as over the rows that were grouped.
\* This covers the table aggregate_data returns and, for every table and every
\* selection of areas, the lighting and parks groupings of the filtered table.
C5_SumsPreserved ==
    /\ Aggregated => \A c \in SumColumns : Total(agg_data, c) = Total(data, c)
    /\ (stage = "input" /\ group_column = "Area") =>
       \A S \in SUBSET Areas :
          LET filtered_df == IsIn(data, "Area", S)
          IN  /\ \A c \in {"lighting_bad", "lighting_acceptable", "lighting_good"} :
                    Total(LightingData(filtered_df), c) = Total(filtered_df, c)
              /\ \A c \in {"parks_bad", "parks_acceptable", "parks_good"} :
                    Total(ParksData(filtered_df), c) = Total(filtered_df, c)

\* Two rows with a nonzero indicator were merged into one group.
C5_Witness ==
    /\ stage = "aggregated"
    /\ Len(data) = 2
    /\ Len(agg_data) = 1
    /\ data[1].lighting_good = 1
    /\ data[2].lighting_good = 1
    /\ agg_data[1].lighting_good = 2

\* The rows of the scenario: towns A1 and A2 of area X.
Scenario ==
    << CleanRow(<<"A", "1">>, <<"X">>,
                [lighting_good |-> 1, lighting_acceptable |-> 0, lighting_bad |-> 0,
                 parks_good |-> 1, parks_acceptable |-> 0, parks_bad |-> 0,
                 parks_exist |-> 1]),
       CleanRow(<<"A", "2">>, <<"X">>,
                [lighting_good |-> 0, lighting_acceptable |-> 1, lighting_bad |-> 0,
                 parks_good |-> 0, parks_acceptable |-> 1, parks_bad |-> 0,
                 parks_exist |-> 1]) >>

\* good + acceptable of one raw row.
RowScore(r) ==
    r.lighting_good + r.parks_good + r.lighting_acceptable + r.parks_acceptable

\* C8: total_score of a group is the sum, over the group's rows, of
\* lighting_good + parks_good + lighting_acceptable + parks_acceptable and of
\* nothing else; the two-town scenario of area X gives total_score 4,
\* town_count 2 and normalized_score 2.
C8_TotalScore ==
    Aggregated =>
        /\ \A i \in 1..Len(agg_data) :
              LET members == { k \in 1..Len(data) : data[k].Area = agg_data[i].Area }
                  good == [k \in 1..Len(data) |-> [v |-> RowScore(data[k])]]
              IN  agg_data[i].total_score = SumOver(good, "v", members)
        /\ data = Scenario =>
              /\ Len(agg_data) = 1
              /\ agg_data[1].Area = <<"X">>
              /\ agg_data[1].total_score = 4
              /\ agg_data[1].town_count = 2
              /\ agg_data[1].normalized_score = [kind |-> "num", n |-> 2, d |-> 1]

\* The scenario was aggregated.
C8_Witness == stage = "aggregated" /\ data = Scenario /\ Len(agg_data) = 1

Min(a, b) == IF a < b THEN a ELSE b

Ranked == stage = "ranked"

\* The rows returned are distinct rows of agg_data, as many as min(n, groups).
TopCount ==
    /\ Len(top) = Min(num, Len(agg_data))
    /\ \A a \in 1..Len(top) : top[a] \in 1..Len(agg_data)
    /\ \A a, b \in 1..Len(top) : a # b => top[a] # top[b]

\* No row comes after a row with a smaller score.
TopDescending ==
    \A a, b \in 1..Len(top) :
        a < b => ~Greater(Score(agg_data, score_column, top[b]),
                          Score(agg_data, score_column, top[a]))

\* Ties keep the original grouping order: a returned row is preceded, in the
\* result, by every earlier row of agg_data with the same score.
TopTiesInOrder ==
    \A b \in 1..Len(top) : \A j \in 1..(top[b] - 1) :
        ( /\ Score(agg_data, score_column, j).kind # "nan"
          /\ Score(agg_data, score_column, j) = Score(agg_data, score_column, top[b]) )
        => \E a \in 1..(b - 1) : top[a] = j

\* Every row of any top-n is a row of any top-(n+1).
TopMonotonic ==
    \A t1 \in nlargest(agg_data, num, score_column),
       t2 \in nlargest(agg_data, num + 1, score_column) : Range(t1) \subseteq Range(t2)

C1_EmptyFilterEmptiesAll ==
    (status = "ok" /\ selected_areas = {}) =>
        /\ lighting_data = <<>>
        /\ parks_data = <<>>
        /\ grouped_df = <<>>

\* C2: a pass with an empty selection, in the sidebar filter or in the
\* comparison multiselect, shows an explicit warning instead of silently
\* drawing empty charts.  (Stated of the passes that ran to the end.)
C2_EmptySelectionWarns ==
    (status = "ok" /\ (selected_areas = {} \/ comparison_areas = {})) => warning

\* C3: once a load has succeeded, no pass fetches again, the cached table is
\* never replaced, and every later pass works on that same table.
C3_LoadOnce ==
    [][cache.loaded =>
          /\ fetches' = fetches
          /\ gets' = 0
          /\ cache' = cache
          /\ status' \in Drawn
          /\ df' = cache.df]_vars

\* A pass served from the cache, after the pass that loaded the table.
C3_Witness ==
    /\ cache.loaded
    /\ gets = 0
    /\ status = "ok"
    /\ fetches = 1
    /\ df = cache.df
    /\ df # <<>>

\* C7: in every pass that reaches the detail view, the view either shows
\* exactly the aggregated row of the selected entity or shows nothing, and
\* the pass does not raise.
C7_DetailNeverRaises ==
    status \in Drawn =>
        /\ status = "ok"
        /\ detail.shown =>
              /\ Len(detail.row) = 1
              /\ detail.row[1].Area = selected_entity
              /\ \E i \in 1..Len(grouped_df) : grouped_df[i] = detail.row[1]

\* C9: a pass whose fetch failed ends in an exception raised by load_data,
\* after a single requests.get; it has no table, caches nothing, and none of
\* its filter, aggregation, chart or detail steps ran.
C9_FetchFailureIsFatal ==
    answered \in {"ConnectionError", "HTTPError"} =>
        /\ status \in {"ConnectionError", "KeyError"}
        /\ gets = 1
        /\ ~cache.loaded
        /\ df = <<>>
        /\ lighting_data = <<>>
        /\ parks_data = <<>>
        /\ grouped_df = <<>>
        /\ top_entities = <<>>
        /\ ~detail.shown
        /\ charts = {}
        /\ ~warning

\* A second pass in a row whose fetch failed, this time on an HTTP error.
C9_Witness ==
    /\ answered = "HTTPError"
    /\ status = "KeyError"
    /\ fetches = 2
    /\ gets = 1

====
